---- MODULE Spec2Model ----
(***************************************************************************)
(* A model of the interop bridge of the cef bindings:                      *)
(*   - RefCounted<C, R>, the container that co-locates a foreign vtable    *)
(*     object, an atomic counter and a safe payload (refcounted.rs);       *)
(*   - the one-shot callback cells DownloadImageCallbackWrapper and        *)
(*     PDFPrintCallbackWrapper (browser_host.rs);                          *)
(*   - the URLRequestClient trampolines (urlrequest.rs);                   *)
(*   - the BrowserHost operations that call through a vtable slot          *)
(*     (browser_host.rs).                                                  *)
(*                                                                         *)
(* Memory that has been deallocated is indeterminate: a read of a field of *)
(* a freed container yields any value of the field's type.                 *)
(***************************************************************************)
EXTENDS Integers, Sequences, FiniteSets, TLC

\* ------------------------------------------------------------------ bounds

\* Width of the counter (AtomicUsize), scaled down.
UsizeBits == 2
\* Calls the foreign side makes to add_ref / release / a trampoline.
MaxAdd == 2
MaxRel == 3
MaxInvoke == 2
\* Concurrent scenario: K add_ref calls, then K release calls.
K == 2
\* BrowserHost calls made in one run.
MaxHostCalls == 2
\* Handles of one type alive at once; handle operations in a run.
MaxHandles == 2
MaxHandleOps == 4
\* RenderProcessHandler trampoline invocations in a run.
MaxRenderCalls == 2
\* add_ref calls made before the releases in the one-shot race scenario.
MaxRaceAdds == 1
\* visit trampoline invocations in a run.
MaxVisits == 4
\* Addresses, in words, at which the allocator may place the container.
MaxAddress == 5

UsizeMod == 2 ^ UsizeBits
Usize == 0 .. (UsizeMod - 1)

OneShotKinds == {"download_image", "pdf_print"}
Kinds == OneShotKinds \cup {"urlrequest_client"}
Threads == {"t1", "t2"}

VARIABLES
    kind,         \* which payload R the container holds
    base,         \* cefobj.base, the cef_base_ref_counted_t at offset 0
    refcount,     \* RefCounted.refcount (the memory cell)
    allocated,    \* the container's allocation is live
    deallocs,     \* how many times the container's Box was dropped
    callback,     \* the cell: Mutex<Option<Box<dyn FnOnce>>>, "Some" or "None"
    executed,     \* how many times the wrapped closure ran
    dropped,      \* how many times the closure's captures were dropped
    invocations,  \* one-shot trampoline invocations so far
    nAdd, nRel,   \* add_ref / release calls so far
    inProtocol,   \* every call so far was made by a holder of a refcount unit
    nTramp,       \* URLRequestClient trampoline invocations so far
    reqAddRefs,   \* add_ref calls issued on the request / callback argument
    reqReleases,  \* release calls issued on the request / callback argument
    crashed,      \* "none", or how a panic left the trampoline
    lastOp,       \* the last call: what it observed and returned
    pc, tprior,   \* concurrent scenario: each thread's position and fetch_sub result
    addsLeft, relsLeft,
    hostLast, hostCalls,
    urlLive,      \* URLRequest handles alive
    urlAddRefs,   \* add_ref calls the URLRequest handles made on the foreign object
    urlReleases,  \* release calls the URLRequest handles made on it
    authLive, authAddRefs, authReleases,   \* the same for AuthCallback handles
    handleLast, handleOps,
    wrapped,      \* which delegate wrap() was given, if any
    implemented,  \* the trait methods that delegate overrides
    slots,        \* the domain slots that are non-null in the table wrap() built
    load_handler, \* RenderProcessHandlerWrapper.load_handler: "None" or "Some"
    cacheCreations, \* how many times RefCountedPtrCache::new built an entry
    rphLast, rphCalls,
    mutex,        \* the cell's Mutex: "none", or the thread that holds it
    ipc,          \* each thread's position inside a one-shot trampoline
    got,          \* what each thread's take() found in the cell
    readAfterFree, \* a trampoline touched the cell of a deallocated container
    vcallback,    \* NavigationEntryVisitorWrapper.callback: "Some" or "None"
    vpc,          \* each thread's position inside the visit trampoline
    visits,       \* visit invocations started
    vexecuted,    \* how many times the visitor's closure ran
    vOverlapped,  \* a visit was entered while another was in flight
    vLast,        \* the last visit that returned
    address,      \* where the container's allocation starts, in words
    viewLast      \* the last call made through get_cef's pointer

refVars == <<kind, base, refcount, allocated, deallocs, nAdd, nRel, inProtocol>>
cellVars == <<callback, executed, dropped, invocations>>
clientVars == <<nTramp, reqAddRefs, reqReleases, crashed>>
concVars == <<pc, tprior, addsLeft, relsLeft>>
hostVars == <<hostLast, hostCalls>>
handleVars == <<urlLive, urlAddRefs, urlReleases, authLive, authAddRefs,
                authReleases, handleLast, handleOps>>
renderVars == <<wrapped, implemented, slots, load_handler, cacheCreations,
                rphLast, rphCalls>>
raceVars == <<mutex, ipc, got, readAfterFree>>
visitVars == <<vcallback, vpc, visits, vexecuted, vOverlapped, vLast>>
layoutVars == <<address, viewLast>>
extVars == <<handleVars, renderVars, raceVars, visitVars, layoutVars>>
vars == <<refVars, cellVars, clientVars, concVars, hostVars, extVars, lastOp>>

NoOp == [op |-> "new", prior |-> -1, ret |-> -1, freed |-> FALSE,
         ran |-> FALSE, input |-> "none", outcome |-> "returned",
         events |-> <<>>]
NoHost == [op |-> "none", present |-> FALSE, foreign |-> 0,
           outcome |-> "none", result |-> "none",
           foreign_calls |-> 0, containers |-> 0, closure_runs |-> 0]
NoHandle == [type |-> "none", op |-> "none", outcome |-> "none", calls |-> <<>>]

\* No handle has been made yet.
InitHandles ==
    /\ urlLive = 0 /\ urlAddRefs = 0 /\ urlReleases = 0
    /\ authLive = 0 /\ authAddRefs = 0 /\ authReleases = 0
    /\ handleLast = NoHandle /\ handleOps = 0

NoRph == [slot |-> "none", called |-> <<>>, delegate |-> "none", ret |-> "none"]

\* No delegate has been wrapped.
InitRenderIdle ==
    /\ wrapped = "none" /\ implemented = {} /\ slots = {}
    /\ load_handler = "None" /\ cacheCreations = 0
    /\ rphLast = NoRph /\ rphCalls = 0

\* No thread is inside a one-shot trampoline.
InitRaceIdle ==
    /\ mutex = "none" /\ ipc = [t \in Threads |-> "idle"]
    /\ got = [t \in Threads |-> "none"] /\ readAfterFree = FALSE

NoVisit == [seq |-> 0, run |-> 0, closure |-> "none", ret |-> -1]

\* NavigationEntryVisitorWrapper::new: the closure is in place, no visit yet.
InitVisitor ==
    /\ vcallback = "Some" /\ vpc = [t \in Threads |-> "idle"]
    /\ visits = 0 /\ vexecuted = 0 /\ vOverlapped = FALSE /\ vLast = NoVisit

NoView == [op |-> "none", ptr |-> 0, view |-> 0, counter_at |-> 0,
           payload_at |-> 0, counter |-> -1]

\* The container sits at the first address; nothing was called through a
\* pointer from get_cef.
InitLayoutIdle == address = 1 /\ viewLast = NoView

InitExt ==
    /\ InitHandles /\ InitRenderIdle /\ InitRaceIdle /\ InitVisitor
    /\ InitLayoutIdle

\* --------------------------------------------------------- RefCounted<C, R>

\* A Borrowed View: the Box is wrapped in ManuallyDrop, so the view's own
\* drop does not run the Box's destructor.
make_temp_owning == "Box"
make_temp == "ManuallyDrop"

\* Whether a view dropped at the end of a function's scope frees the container.
ScopeEndFrees == make_temp = "Box"

\* The refcount units the callers hold: one from construction, one more per
\* add_ref, one fewer per release.
units == 1 + nAdd - nRel
\* The foreign refcount protocol: only a holder of a unit calls the object.
CalledByHolder == inProtocol' = (inProtocol /\ units >= 1)

\* What a read of the counter yields.
CounterRead == IF allocated THEN {refcount} ELSE Usize
\* What a read of the cell yields.
CellRead == IF allocated THEN {callback} ELSE {"Some", "None"}
\* What the payload's drop glue finds in the cell, when it runs.
DropRead(frees) == IF frees /\ kind \in OneShotKinds THEN CellRead ELSE {callback}

\* fetch_add / fetch_sub on a usize wrap.
fetch_add(v) == (v + 1) % UsizeMod
fetch_sub_saturating(v) == IF v = 0 THEN 0 ELSE v - 1
fetch_sub(v) == (v - 1 + UsizeMod) % UsizeMod

\* release: the branch that unwraps the ManuallyDrop and so drops the Box.
release_frees(prior) == prior > 1

\* release: the value handed back to the foreign side.
release_ret_swapped(prior) == IF prior > 1 THEN 1 ELSE 0
release_ret(prior) == IF prior > 1 THEN 0 ELSE 1

\* Drop glue of a one-shot wrapper: the Mutex<Option<closure>> field is
\* dropped; a closure still in the cell is dropped, not called.
drop_cell_calling(c) == [executed |-> IF c = "Some" THEN 1 ELSE 0,
                         dropped |-> IF c = "Some" THEN 1 ELSE 0]
drop_cell(c) == [executed |-> 0, dropped |-> IF c = "Some" THEN 1 ELSE 0]

\* Dropping the container's Box when `frees`: the allocation ends and the
\* payload's drop glue runs on the cell content c it finds.
DropBox(frees, c) ==
    /\ allocated' = (allocated /\ ~frees)
    /\ deallocs' = deallocs + (IF frees THEN 1 ELSE 0)
    /\ IF frees /\ kind \in OneShotKinds
       THEN /\ executed' = executed + drop_cell(c).executed
            /\ dropped' = dropped + drop_cell(c).dropped
       ELSE UNCHANGED <<executed, dropped>>

\* Sizes, in machine words.  cef_base_ref_counted_t is the size field and
\* the four refcount slots.
BaseFields == {"size", "add_ref", "release", "has_one_ref",
               "has_at_least_one_ref"}
\* The domain slots that follow the base in each vtable type C.
DomainSlots(k) ==
    IF k = "urlrequest_client"
    THEN {"on_request_complete", "on_upload_progress", "on_download_progress",
          "on_download_data", "get_auth_credentials"}
    ELSE IF k = "download_image" THEN {"on_download_image_finished"}
    ELSE {"on_pdf_print_finished"}
size_of_base == Cardinality(BaseFields)
size_of_C(k) == size_of_base + Cardinality(DomainSlots(k))
\* The payload R: a Box<dyn Trait> is a fat pointer; a one-shot cell is a
\* Mutex around an Option of one.
size_of_R(k) == IF k \in OneShotKinds THEN 3 ELSE 2
\* RefCounted<C, R>: cefobj, refcount, object.
size_of_RefCounted(k) == size_of_C(k) + 1 + size_of_R(k)

\* The size field new() hands to set_base.
base_size_of_container(k) == size_of_RefCounted(k)
base_size(k) == size_of_C(k)

\* The base record new() builds; set_base stores it in cefobj.base.
cef_base_ref_counted_t(k) ==
    [size |-> base_size(k),
     add_ref |-> "RefCounted::add_ref",
     release |-> "RefCounted::release",
     has_one_ref |-> "RefCounted::has_one_ref",
     has_at_least_one_ref |-> "RefCounted::has_at_least_one_ref"]
set_base(b) == b

\* RefCounted::new: counter 1, payload moved into a fresh allocation.
new(k) ==
    /\ kind = k
    /\ base = set_base(cef_base_ref_counted_t(k))
    /\ refcount = 1
    /\ allocated = TRUE
    /\ deallocs = 0
    /\ callback = (IF k \in OneShotKinds THEN "Some" ELSE "None")
    /\ executed = 0 /\ dropped = 0 /\ invocations = 0
    /\ nAdd = 0 /\ nRel = 0 /\ inProtocol = TRUE

InitIdle ==
    /\ nTramp = 0 /\ reqAddRefs = 0 /\ reqReleases = 0 /\ crashed = "none"
    /\ lastOp = NoOp
    /\ pc = [t \in Threads |-> "idle"] /\ tprior = [t \in Threads |-> 0]
    /\ addsLeft = 0 /\ relsLeft = 0
    /\ hostLast = NoHost /\ hostCalls = 0

InitRest == InitIdle /\ InitExt

Init == (\E k \in Kinds : new(k)) /\ InitRest

add_ref ==
    /\ crashed = "none" /\ nAdd < MaxAdd
    /\ \E v \in CounterRead, c \in DropRead(ScopeEndFrees) :
        /\ refcount' = fetch_add(v)
        /\ DropBox(ScopeEndFrees, c)
        /\ lastOp' = [NoOp EXCEPT !.op = "add_ref", !.prior = v,
                                  !.freed = ScopeEndFrees]
    /\ nAdd' = nAdd + 1
    /\ CalledByHolder
    /\ UNCHANGED <<kind, base, nRel, callback, invocations, clientVars, concVars, hostVars, extVars>>

release ==
    /\ crashed = "none" /\ nRel < MaxRel
    /\ \E v \in CounterRead :
      \E c \in DropRead(release_frees(v) \/ ScopeEndFrees) :
        LET frees == release_frees(v) \/ ScopeEndFrees IN
        /\ refcount' = fetch_sub(v)
        /\ DropBox(frees, c)
        /\ lastOp' = [NoOp EXCEPT !.op = "release", !.prior = v,
                                  !.ret = release_ret(v), !.freed = frees]
    /\ nRel' = nRel + 1
    /\ CalledByHolder
    /\ UNCHANGED <<kind, base, nAdd, callback, invocations, clientVars, concVars, hostVars, extVars>>

\* has_one_ref: (counter == 1) as c_int.
has_one_ref_ret_at_least(v) == IF v >= 1 THEN 1 ELSE 0
has_one_ref_ret(v) == IF v = 1 THEN 1 ELSE 0
\* has_at_least_one_ref: (counter >= 1) as c_int.
has_at_least_one_ref_ret(v) == IF v >= 1 THEN 1 ELSE 0

has_one_ref ==
    /\ crashed = "none"
    /\ \E v \in CounterRead, c \in DropRead(ScopeEndFrees) :
        /\ DropBox(ScopeEndFrees, c)
        /\ lastOp' = [NoOp EXCEPT !.op = "has_one_ref", !.prior = v,
                                  !.ret = has_one_ref_ret(v),
                                  !.freed = ScopeEndFrees]
    /\ CalledByHolder
    /\ UNCHANGED <<kind, base, refcount, nAdd, nRel, callback, invocations,
                   clientVars, concVars, hostVars, extVars>>

has_at_least_one_ref ==
    /\ crashed = "none"
    /\ \E v \in CounterRead, c \in DropRead(ScopeEndFrees) :
        /\ DropBox(ScopeEndFrees, c)
        /\ lastOp' = [NoOp EXCEPT !.op = "has_at_least_one_ref", !.prior = v,
                                  !.ret = has_at_least_one_ref_ret(v),
                                  !.freed = ScopeEndFrees]
    /\ CalledByHolder
    /\ UNCHANGED <<kind, base, refcount, nAdd, nRel, callback, invocations,
                   clientVars, concVars, hostVars, extVars>>

\* ------------------------------------------------- one-shot callback cells

\* The trampoline that cef_callback_impl! generates around a method body
\* recovers the wrapper from the self pointer as a Borrowed View, which
\* does not own the container.
cef_callback_impl_view == "ManuallyDrop"

\* Option::take: the value is moved out and None is left in the cell.
take_leaving(c) == c
take(c) == "None"

\* if let Some(callback) = self.callback.lock().take() { callback(..) }
\* The guard returned by lock() is a temporary of the if-let scrutinee: it
\* is dropped at the end of the if-let statement, after the body.
take_and_invoke(name) ==
    /\ kind = name /\ crashed = "none" /\ invocations < MaxInvoke
    /\ \E c \in CellRead :
        LET ran == (c = "Some") IN
        /\ callback' = take(c)
        /\ executed' = executed + (IF ran THEN 1 ELSE 0)
        \* calling a FnOnce consumes it: its captures are dropped by the call
        /\ dropped' = dropped + (IF ran THEN 1 ELSE 0)
        /\ lastOp' = [NoOp EXCEPT !.op = name, !.ran = ran, !.input = c,
                        !.events = IF ran THEN <<"lock", "take", "call", "unlock">>
                                          ELSE <<"lock", "take", "unlock">>]
    /\ invocations' = invocations + 1
    /\ CalledByHolder
    \* the view goes out of scope when the trampoline returns
    /\ allocated' = (allocated /\ cef_callback_impl_view = "ManuallyDrop")
    /\ deallocs' = deallocs + (IF cef_callback_impl_view = "ManuallyDrop" THEN 0 ELSE 1)
    /\ UNCHANGED <<kind, base, refcount, nAdd, nRel, clientVars, concVars, hostVars, extVars>>

download_image_finished == take_and_invoke("download_image")

pdf_print_finished == take_and_invoke("pdf_print")

\* ---------------------------------------------- URLRequestClient trampolines

\* No trampoline body is wrapped in catch_unwind.  How a panic leaves an
\* extern "C" function depends on the build: the process aborts at the
\* panic (panic = "abort"), aborts when the unwind reaches the boundary
\* after running the frame's destructors, or unwinds into the caller.
PanicOutcomes == {"abort", "abort_unwound", "unwind"}
\* What a delegate call does, and how the trampoline is left.
VoidDelegate == {<<"returns", "returned">>} \cup ({"panics"} \X PanicOutcomes)
AuthDelegate == ({"true", "false"} \X {"returned"}) \cup ({"panics"} \X PanicOutcomes)

VoidTrampolines == {"request_complete", "upload_progress",
                    "download_progress", "download_data"}
ClientTrampolines == VoidTrampolines \cup {"get_auth_credentials"}

\* The calls an operation makes on a foreign object's base, counted.
Count(calls, c) == Cardinality({i \in DOMAIN calls : calls[i] = c})

\* What the statement (*this).on_xxx(&URLRequest::from(request), ..) does
\* with the request, in order: the temporary URLRequest is built before the
\* call and dropped after it, unless a panic aborts the process first.
request_calls_forgetting(unwound) == <<"add_ref", "delegate">>
request_calls(unwound) ==
    IF unwound THEN <<"add_ref", "delegate", "release">>
    ELSE <<"add_ref", "delegate">>

\* let this = make_temp(self_);
\* (*this).on_xxx(&URLRequest::from(request), ..);
\* URLRequest::from calls add_ref on the request, the temporary's drop at
\* the end of the statement calls release.
void_trampoline(name) ==
    /\ kind = "urlrequest_client" /\ crashed = "none" /\ nTramp < MaxInvoke
    /\ \E b \in VoidDelegate, c \in DropRead(ScopeEndFrees) :
        LET d == b[1]
            o == b[2]
            unwound == o # "abort"
        IN
        /\ reqAddRefs' = reqAddRefs + Count(request_calls(unwound), "add_ref")
        /\ reqReleases' = reqReleases + Count(request_calls(unwound), "release")
        /\ crashed' = (IF d = "panics" THEN o ELSE "none")
        /\ DropBox(ScopeEndFrees /\ unwound, c)
        /\ lastOp' = [NoOp EXCEPT !.op = name, !.input = d,
                        !.freed = ScopeEndFrees /\ unwound,
                        !.outcome = IF d = "panics" THEN o ELSE "returned",
                        !.events = request_calls(unwound)]
    /\ nTramp' = nTramp + 1
    /\ CalledByHolder
    /\ UNCHANGED <<kind, base, refcount, nAdd, nRel, callback, invocations,
                   concVars, hostVars, extVars>>

request_complete == void_trampoline("request_complete")

upload_progress == void_trampoline("upload_progress")

download_progress == void_trampoline("download_progress")

download_data == void_trampoline("download_data")

\* (*this).get_auth_credentials(is_proxy != 0,
\*     &CefString::copy_raw_to_string(host).unwrap(), port as u16,
\*     &..(realm).unwrap(), &..(scheme).unwrap(),
\*     AuthCallback::from(callback)) as i32
\* The arguments are evaluated left to right: a string that does not
\* convert panics in unwrap() before add_ref and before the delegate.
get_auth_credentials ==
    /\ kind = "urlrequest_client" /\ crashed = "none" /\ nTramp < MaxInvoke
    /\ \E b \in AuthDelegate \cup ({"bad_string"} \X PanicOutcomes),
          c \in DropRead(ScopeEndFrees) :
        LET d == b[1]
            o == b[2]
            panics == o # "returned"
            unwound == o # "abort"
            called == d # "bad_string"
        IN
        /\ reqAddRefs' = reqAddRefs + (IF called THEN 1 ELSE 0)
        \* the AuthCallback is moved into the delegate and dropped there
        /\ reqReleases' = reqReleases + (IF called /\ unwound THEN 1 ELSE 0)
        /\ crashed' = (IF panics THEN o ELSE "none")
        /\ DropBox(ScopeEndFrees /\ unwound, c)
        /\ lastOp' = [NoOp EXCEPT !.op = "get_auth_credentials",
                        !.input = d,
                        !.ret = IF ~panics /\ d = "true" THEN 1
                                ELSE IF ~panics THEN 0 ELSE -1,
                        !.freed = ScopeEndFrees /\ unwound,
                        !.outcome = IF panics THEN o ELSE "returned",
                        !.events = IF ~called THEN <<>>
                                   ELSE IF unwound
                                   THEN <<"add_ref", "delegate", "release">>
                                   ELSE <<"add_ref", "delegate">>]
    /\ nTramp' = nTramp + 1
    /\ CalledByHolder
    /\ UNCHANGED <<kind, base, refcount, nAdd, nRel, callback, invocations,
                   concVars, hostVars, extVars>>

Next ==
    \/ add_ref
    \/ release
    \/ has_one_ref
    \/ has_at_least_one_ref
    \/ download_image_finished
    \/ pdf_print_finished
    \/ request_complete
    \/ upload_progress
    \/ download_progress
    \/ download_data
    \/ get_auth_credentials

Spec == Init /\ [][Next]_vars

\* ------------------------------------- concurrent add_ref, then release

\* K add_ref calls are shared among the threads; once they are all done, K
\* release calls are.  add_ref is one atomic read-modify-write.  release is
\* the atomic fetch_sub followed, in a second step, by the branch on the
\* value it returned.
InitConc ==
    /\ \E k \in Kinds : new(k)
    /\ nTramp = 0 /\ reqAddRefs = 0 /\ reqReleases = 0 /\ crashed = "none"
    /\ lastOp = NoOp
    /\ pc = [t \in Threads |-> "idle"] /\ tprior = [t \in Threads |-> 0]
    /\ addsLeft = K /\ relsLeft = K
    /\ hostLast = NoHost /\ hostCalls = 0
    /\ InitExt

thread_add_ref(t) ==
    /\ pc[t] = "idle" /\ addsLeft > 0
    /\ \E v \in CounterRead, c \in DropRead(ScopeEndFrees) :
        /\ refcount' = fetch_add(v)
        /\ DropBox(ScopeEndFrees, c)
        /\ lastOp' = [NoOp EXCEPT !.op = "add_ref", !.prior = v,
                                  !.freed = ScopeEndFrees]
    /\ nAdd' = nAdd + 1
    /\ addsLeft' = addsLeft - 1
    /\ CalledByHolder
    /\ UNCHANGED <<kind, base, nRel, callback, invocations, clientVars,
                   pc, tprior, relsLeft, hostVars, extVars>>

thread_release_fetch_sub(t) ==
    /\ pc[t] = "idle" /\ addsLeft = 0 /\ relsLeft > 0
    /\ \E v \in CounterRead :
        /\ refcount' = fetch_sub(v)
        /\ tprior' = [tprior EXCEPT ![t] = v]
    /\ pc' = [pc EXCEPT ![t] = "fetched"]
    /\ nRel' = nRel + 1
    /\ relsLeft' = relsLeft - 1
    /\ CalledByHolder
    /\ UNCHANGED <<kind, base, allocated, deallocs, nAdd, cellVars, clientVars,
                   addsLeft, hostVars, extVars, lastOp>>

thread_release_branch(t) ==
    /\ pc[t] = "fetched"
    /\ \E c \in DropRead(release_frees(tprior[t]) \/ ScopeEndFrees) :
        LET frees == release_frees(tprior[t]) \/ ScopeEndFrees IN
        /\ DropBox(frees, c)
        /\ lastOp' = [NoOp EXCEPT !.op = "release", !.prior = tprior[t],
                                  !.ret = release_ret(tprior[t]),
                                  !.freed = frees]
    /\ pc' = [pc EXCEPT ![t] = "idle"]
    /\ UNCHANGED <<kind, base, refcount, nAdd, nRel, inProtocol, callback,
                   invocations, clientVars, tprior, addsLeft, relsLeft,
                   hostVars, extVars>>

ConcDone == addsLeft = 0 /\ relsLeft = 0 /\ \A t \in Threads : pc[t] = "idle"

NextConc ==
    \E t \in Threads :
        \/ thread_add_ref(t)
        \/ thread_release_fetch_sub(t)
        \/ thread_release_branch(t)

SpecConc == InitConc /\ [][NextConc]_vars

\* ---------------------------------------------------------------- BrowserHost

\* What the foreign function behind a slot hands back: an integer, or a
\* pointer, of which 0 is false / null.
ForeignResults == {0, 1, 2}

\* self.0.slot.unwrap()(..): a null slot panics in unwrap().
UnwrapOps == {"get_browser", "get_client", "get_request_context",
              "send_dev_tools_message", "execute_dev_tools_method",
              "add_dev_tools_message_observer", "get_visible_navigation_entry"}
\* self.0.slot.map(|f| f(..) != 0).unwrap_or(false)
BoolQueries == {"try_close_browser", "has_view", "has_dev_tools",
                "is_mouse_cursor_change_disabled", "is_window_rendering_disabled",
                "is_background_host", "is_audio_muted"}
\* self.0.slot.and_then(|f| from_ptr(f(..)))
OptionQueries == {"get_window_handle", "get_opener_window_handle", "get_extension"}
\* self.0.slot.map(|f| f(..)).unwrap_or(default)
DefaultQueries == {"get_windowless_frame_rate", "get_zoom_level"}
\* if let Some(f) = self.0.slot { f(.., Wrapper::new(callback).wrap().into_raw()) }
CallbackOps == {"run_file_dialog", "download_image", "print_to_pdf",
                "get_navigation_entries"}
\* if let Some(f) = self.0.slot { f(..) }
VoidOps == {"close_browser", "set_focus", "set_zoom_level", "start_download",
            "print", "find", "stop_finding", "show_dev_tools", "close_dev_tools",
            "set_mouse_cursor_change_disabled", "replace_misspelling",
            "add_word_to_dictionary", "was_resized", "was_hidden",
            "notify_screen_info_changed", "invalidate",
            "send_external_begin_frame", "send_key_event",
            "send_mouse_click_event", "send_mouse_move_event",
            "send_mouse_wheel_event", "send_touch_event", "send_focus_event",
            "send_capture_lost_event", "notify_move_or_resize_started",
            "set_windowless_frame_rate", "ime_set_composition",
            "ime_commit_text", "ime_finish_composing_text",
            "ime_cancel_composition", "drag_target_drag_enter",
            "drag_target_drag_over", "drag_target_drag_leave",
            "drag_target_drop", "drag_source_ended_at",
            "drag_source_system_drag_ended", "set_accessibility_state",
            "set_auto_resize_enabled", "set_audio_muted"}

Bool(b) == IF b THEN "true" ELSE "false"
Ptr(f) == IF f = 0 THEN "None" ELSE "Some"

\* The outcome of an operation that unwraps its slot.
unwrap_slot(op, present, f) ==
    IF ~present THEN [outcome |-> "panic", result |-> "none"]
    ELSE IF op \in {"send_dev_tools_message", "execute_dev_tools_method"}
    THEN [outcome |-> "returned", result |-> Bool(f # 0)]
    ELSE IF op = "get_client"
    THEN [outcome |-> "returned", result |-> Ptr(f)]
    ELSE IF op = "get_request_context" /\ f = 0
    \* from_ptr gives None for a null pointer, and the unwrap() panics
    THEN [outcome |-> "panic", result |-> "none"]
    ELSE [outcome |-> "returned", result |-> "object"]

\* self.0.slot.map(|f| f(..) != 0).unwrap_or(false)
bool_query_is_one(present, f) == Bool(present /\ f = 1)
bool_query(present, f) == Bool(present /\ f # 0)

\* The outcome of an operation that guards its slot.
guarded_slot(op, present, f) ==
    IF op \in BoolQueries
    THEN [outcome |-> "returned", result |-> bool_query(present, f)]
    ELSE IF op \in OptionQueries
    THEN [outcome |-> "returned", result |-> IF present THEN Ptr(f) ELSE "None"]
    ELSE IF op = "get_windowless_frame_rate"
    THEN [outcome |-> "returned", result |-> IF present THEN "foreign" ELSE "30"]
    ELSE IF op = "get_zoom_level"
    THEN [outcome |-> "returned", result |-> IF present THEN "foreign" ELSE "0.0"]
    ELSE IF op \in CallbackOps
    THEN [outcome |-> "returned", result |-> IF present THEN "wrapped" ELSE "dropped"]
    ELSE [outcome |-> "returned", result |-> "unit"]

\* The operations that build a callback container from the closure they
\* are given: Wrapper::new(callback).wrap().into_raw() as an argument of the
\* foreign call.
WrappingOps == {"run_file_dialog", "download_image", "print_to_pdf"}

\* How many foreign calls an operation makes: the slot, when there is one.
foreign_calls(op, present) == IF present THEN 1 ELSE 0
\* How many containers it builds: the wrapper is built inside the guard.
containers_built_before_guard(op, present) ==
    IF op \in WrappingOps THEN 1 ELSE 0
containers_built(op, present) ==
    IF op \in WrappingOps /\ present THEN 1 ELSE 0
\* How many times it calls the closure it was given: the closure is moved
\* into the container, or dropped at the end of the function.
closure_runs(op, present) == 0

HostCall(op) ==
    /\ hostCalls < MaxHostCalls
    /\ \E present \in BOOLEAN :
       \E f \in (IF present THEN ForeignResults ELSE {0}) :
        LET r == IF op \in UnwrapOps THEN unwrap_slot(op, present, f)
                                     ELSE guarded_slot(op, present, f)
        IN hostLast' = [op |-> op, present |-> present, foreign |-> f,
                        outcome |-> r.outcome, result |-> r.result,
                        foreign_calls |-> foreign_calls(op, present),
                        containers |-> containers_built(op, present),
                        closure_runs |-> closure_runs(op, present)]
    /\ hostCalls' = hostCalls + 1
    /\ UNCHANGED <<refVars, cellVars, clientVars, concVars, lastOp, extVars>>

unwrapping_operation == \E op \in UnwrapOps : HostCall(op)

guarded_operation ==
    \E op \in BoolQueries \cup OptionQueries \cup DefaultQueries
              \cup CallbackOps \cup VoidOps :
        HostCall(op)

NextHost == unwrapping_operation \/ guarded_operation

SpecHost == Init /\ [][NextHost]_vars

\* ------------------------------------------- URLRequest, AuthCallback handles

\* The methods of URLRequest that take &self; each body is unimplemented!().
URLRequestMethods == {"get_request", "get_client", "get_request_status",
                      "get_request_error", "get_response",
                      "response_was_cached", "cancel"}

\* From<*mut cef_urlrequest_t>: base.add_ref, then Self(req).
URLRequest_from_calls == <<"add_ref">>
\* Drop for URLRequest: base.release.
URLRequest_drop_calls_none == <<>>
URLRequest_drop_calls == <<"release">>
\* unimplemented!() panics before anything is called.
URLRequest_method_calls == <<>>

\* From<*mut cef_auth_callback_t>: base.add_ref, then Self(cb).
AuthCallback_from_calls == <<"add_ref">>
\* cont / cancel: the slot, when it is there, and then base.release.
AuthCallback_cont_calls(present) ==
    (IF present THEN <<"cont">> ELSE <<>>) \o <<"release">>
AuthCallback_cancel_calls(present) ==
    (IF present THEN <<"cancel">> ELSE <<>>) \o <<"release">>
\* Drop for AuthCallback: base.release.
AuthCallback_drop_calls == <<"release">>

URLRequestStep(op, outcome, calls, made) ==
    /\ handleOps < MaxHandleOps
    /\ urlLive' = urlLive + made
    /\ urlAddRefs' = urlAddRefs + Count(calls, "add_ref")
    /\ urlReleases' = urlReleases + Count(calls, "release")
    /\ handleLast' = [type |-> "URLRequest", op |-> op, outcome |-> outcome,
                      calls |-> calls]
    /\ handleOps' = handleOps + 1
    /\ UNCHANGED <<authLive, authAddRefs, authReleases>>
    /\ UNCHANGED <<refVars, cellVars, clientVars, concVars, hostVars, lastOp,
                   renderVars, raceVars, visitVars, layoutVars>>

AuthCallbackStep(op, calls, made) ==
    /\ handleOps < MaxHandleOps
    /\ authLive' = authLive + made
    /\ authAddRefs' = authAddRefs + Count(calls, "add_ref")
    /\ authReleases' = authReleases + Count(calls, "release")
    /\ handleLast' = [type |-> "AuthCallback", op |-> op,
                      outcome |-> "returned", calls |-> calls]
    /\ handleOps' = handleOps + 1
    /\ UNCHANGED <<urlLive, urlAddRefs, urlReleases>>
    /\ UNCHANGED <<refVars, cellVars, clientVars, concVars, hostVars, lastOp,
                   renderVars, raceVars, visitVars, layoutVars>>

URLRequest_new == URLRequestStep("new", "panic", URLRequest_method_calls, 0)

URLRequest_from ==
    /\ urlLive < MaxHandles
    /\ URLRequestStep("from", "returned", URLRequest_from_calls, 1)

URLRequest_method ==
    /\ urlLive >= 1
    /\ \E m \in URLRequestMethods :
        URLRequestStep(m, "panic", URLRequest_method_calls, 0)

URLRequest_drop ==
    /\ urlLive >= 1
    /\ URLRequestStep("drop", "returned", URLRequest_drop_calls, -1)

AuthCallback_from ==
    /\ authLive < MaxHandles
    /\ AuthCallbackStep("from", AuthCallback_from_calls, 1)

AuthCallback_cont ==
    /\ authLive >= 1
    /\ \E present \in BOOLEAN :
        AuthCallbackStep("cont", AuthCallback_cont_calls(present), 0)

AuthCallback_cancel ==
    /\ authLive >= 1
    /\ \E present \in BOOLEAN :
        AuthCallbackStep("cancel", AuthCallback_cancel_calls(present), 0)

AuthCallback_drop ==
    /\ authLive >= 1
    /\ AuthCallbackStep("drop", AuthCallback_drop_calls, -1)

NextHandle ==
    \/ URLRequest_new \/ URLRequest_from \/ URLRequest_method \/ URLRequest_drop
    \/ AuthCallback_from \/ AuthCallback_cont \/ AuthCallback_cancel
    \/ AuthCallback_drop

SpecHandle == Init /\ [][NextHandle]_vars

\* ------------------------------------------------- RenderProcessHandler

\* The domain slots of cef_render_process_handler_t, each named as the trait
\* method of the same capability.
RphSlots == {"on_render_thread_created", "on_web_kit_initialized",
             "on_browser_created", "on_browser_destroyed", "get_load_handler",
             "on_context_created", "on_context_released",
             "on_uncaught_exception", "on_focused_node_changed",
             "on_process_message_received"}

Wrappers == {"render_process_handler", "urlrequest_client"}
SlotsOf(w) == IF w = "render_process_handler" THEN RphSlots
              ELSE DomainSlots("urlrequest_client")

\* wrap(): the slots the table literal sets to Some(Self::trampoline), for a
\* delegate that overrides the methods in impl.
wrap(w, impl) == SlotsOf(w)

\* The delegate method each trampoline's body calls.
delegate_method ==
    [on_render_thread_created |-> "on_render_thread_created",
     on_web_kit_initialized |-> "on_web_kit_initialized",
     on_browser_created |-> "on_browser_created",
     on_browser_destroyed |-> "on_browser_destroyed",
     get_load_handler |-> "get_load_handler",
     on_context_created |-> "on_context_created",
     on_context_released |-> "on_context_created",
     on_uncaught_exception |-> "on_uncaught_exception",
     on_focused_node_changed |-> "on_focused_node_changed",
     on_process_message_received |-> "on_process_message_received"]

\* What the delegate's method can hand back: the trait's default when the
\* delegate does not override it.
DelegateResults(m) ==
    IF m = "get_load_handler"
    THEN (IF m \in implemented THEN {"Some", "None"} ELSE {"None"})
    ELSE IF m = "on_process_message_received"
    THEN (IF m \in implemented THEN {"true", "false"} ELSE {"false"})
    ELSE {"unit"}

\* RefCountedPtrCache::get_ptr_or_rewrap(..).into_raw(): the pointer to the
\* cached or freshly wrapped LoadHandlerWrapper.
get_ptr_or_rewrap_into_raw == "non-null"

\* get_load_handler: the pointer handed to the foreign caller.
get_load_handler_ret_inverted(d) ==
    IF d = "Some" THEN "null" ELSE get_ptr_or_rewrap_into_raw
get_load_handler_ret(d) ==
    IF d = "Some" THEN get_ptr_or_rewrap_into_raw ELSE "null"

\* get_load_handler: the cache after the call.  Some: get_or_insert_with
\* keeps an entry that is there; None: the cache is cleared.
load_handler_after(cache, d) == IF d = "Some" THEN "Some" ELSE "None"
\* How many entries the call builds: get_or_insert_with runs its closure,
\* RefCountedPtrCache::new, only on an empty cache.
cache_entries_built_always(cache, d) == IF d = "Some" THEN 1 ELSE 0
cache_entries_built(cache, d) ==
    IF d = "Some" /\ cache = "None" THEN 1 ELSE 0

\* What a trampoline returns for the delegate's result d.
trampoline_ret(slot, d) ==
    IF slot = "get_load_handler" THEN get_load_handler_ret(d)
    ELSE IF slot = "on_process_message_received"
    THEN (IF d = "true" THEN "1" ELSE "0")
    ELSE "unit"

InitRender ==
    /\ new("urlrequest_client") /\ InitIdle /\ InitHandles /\ InitRaceIdle
    /\ InitVisitor /\ InitLayoutIdle
    /\ \E w \in Wrappers : \E impl \in SUBSET SlotsOf(w) :
        /\ wrapped = w /\ implemented = impl /\ slots = wrap(w, impl)
    /\ load_handler = "None" /\ cacheCreations = 0
    /\ rphLast = NoRph /\ rphCalls = 0

rph_trampoline(slot) ==
    /\ wrapped = "render_process_handler" /\ slot \in slots
    /\ rphCalls < MaxRenderCalls
    /\ \E d \in DelegateResults(delegate_method[slot]) :
        /\ rphLast' = [slot |-> slot, called |-> <<delegate_method[slot]>>,
                       delegate |-> d, ret |-> trampoline_ret(slot, d)]
        /\ load_handler' = (IF slot = "get_load_handler"
                            THEN load_handler_after(load_handler, d)
                            ELSE load_handler)
        /\ cacheCreations' = cacheCreations +
               (IF slot = "get_load_handler"
                THEN cache_entries_built(load_handler, d) ELSE 0)
    /\ rphCalls' = rphCalls + 1
    /\ UNCHANGED <<wrapped, implemented, slots>>
    /\ UNCHANGED <<refVars, cellVars, clientVars, concVars, hostVars, lastOp,
                   handleVars, raceVars, visitVars, layoutVars>>

render_thread_created == rph_trampoline("on_render_thread_created")
web_kit_initialized == rph_trampoline("on_web_kit_initialized")
browser_created == rph_trampoline("on_browser_created")
browser_destroyed == rph_trampoline("on_browser_destroyed")
get_load_handler == rph_trampoline("get_load_handler")
context_created == rph_trampoline("on_context_created")
context_released == rph_trampoline("on_context_released")
uncaught_exception == rph_trampoline("on_uncaught_exception")
focused_node_changed == rph_trampoline("on_focused_node_changed")
process_message_received == rph_trampoline("on_process_message_received")

NextRender ==
    \/ render_thread_created \/ web_kit_initialized \/ browser_created
    \/ browser_destroyed \/ get_load_handler \/ context_created
    \/ context_released \/ uncaught_exception \/ focused_node_changed
    \/ process_message_received

SpecRender == InitRender /\ [][NextRender]_vars

\* ----------------------------- one-shot trampolines on several threads

\* The body of download_image_finished / pdf_print_finished, step by step:
\*     if let Some(callback) = self.callback.lock().take() { callback(..); }
\* lock() blocks until the Mutex is free; take() reads the Option and writes
\* None; the closure is called in the body of the if-let; the guard, a
\* temporary of the scrutinee, is dropped at the end of the statement.
\* Meanwhile other threads add_ref and release the container.

\* Mutex::lock: the lock is granted when nobody holds it.
lock_acquirable_always(holder) == TRUE
lock_acquirable(holder) == holder = "none"

\* Where the if-let goes once take() has handed back c.
after_take(c) == IF c = "Some" THEN "calling" ELSE "unlocking"

InitCell ==
    /\ \E k \in OneShotKinds : new(k)
    /\ nTramp = 0 /\ reqAddRefs = 0 /\ reqReleases = 0 /\ crashed = "none"
    /\ lastOp = NoOp
    /\ pc = [t \in Threads |-> "idle"] /\ tprior = [t \in Threads |-> 0]
    /\ \E a \in 0 .. MaxRaceAdds : addsLeft = a /\ relsLeft = a + 1
    /\ hostLast = NoHost /\ hostCalls = 0
    /\ InitExt

\* The foreign side calls the trampoline on thread t.
trampoline_enter(t) ==
    /\ ipc[t] = "idle" /\ pc[t] = "idle" /\ invocations < MaxInvoke
    /\ ipc' = [ipc EXCEPT ![t] = "waiting"]
    /\ got' = [got EXCEPT ![t] = "none"]
    /\ invocations' = invocations + 1
    /\ CalledByHolder
    /\ UNCHANGED <<kind, base, refcount, allocated, deallocs, nAdd, nRel,
                   callback, executed, dropped, clientVars, concVars, hostVars,
                   handleVars, renderVars, visitVars, layoutVars, mutex, readAfterFree, lastOp>>

\* self.callback.lock()
callback_lock(t) ==
    /\ ipc[t] = "waiting"
    /\ lock_acquirable(mutex) \/ ~allocated
    /\ mutex' = t
    /\ ipc' = [ipc EXCEPT ![t] = "locked"]
    /\ readAfterFree' = (readAfterFree \/ ~allocated)
    /\ UNCHANGED <<refVars, cellVars, clientVars, concVars, hostVars,
                   handleVars, renderVars, visitVars, layoutVars, got, lastOp>>

\* .take(): the read of the Option
take_read(t) ==
    /\ ipc[t] = "locked"
    /\ \E c \in CellRead : got' = [got EXCEPT ![t] = c]
    /\ ipc' = [ipc EXCEPT ![t] = "read"]
    /\ readAfterFree' = (readAfterFree \/ ~allocated)
    /\ UNCHANGED <<refVars, cellVars, clientVars, concVars, hostVars,
                   handleVars, renderVars, visitVars, layoutVars, mutex, lastOp>>

\* .take(): the write of None
take_write(t) ==
    /\ ipc[t] = "read"
    /\ callback' = take(got[t])
    /\ ipc' = [ipc EXCEPT ![t] = after_take(got[t])]
    /\ readAfterFree' = (readAfterFree \/ ~allocated)
    /\ UNCHANGED <<refVars, executed, dropped, invocations, clientVars,
                   concVars, hostVars, handleVars, renderVars, visitVars, layoutVars, mutex, got,
                   lastOp>>

\* callback(..): the closure starts executing
callback_call(t) ==
    /\ ipc[t] = "calling"
    /\ executed' = executed + 1
    /\ ipc' = [ipc EXCEPT ![t] = "running"]
    /\ UNCHANGED <<refVars, callback, dropped, invocations, clientVars,
                   concVars, hostVars, handleVars, renderVars, visitVars, layoutVars, mutex, got,
                   readAfterFree, lastOp>>

\* the closure returns
callback_return(t) ==
    /\ ipc[t] = "running"
    /\ ipc' = [ipc EXCEPT ![t] = "unlocking"]
    /\ UNCHANGED <<refVars, cellVars, clientVars, concVars, hostVars,
                   handleVars, renderVars, visitVars, layoutVars, mutex, got, readAfterFree, lastOp>>

\* The running closure causes the same trampoline to be invoked again on
\* its own thread: the nested call arrives at self.callback.lock().
nested_enter(t) ==
    /\ ipc[t] = "running" /\ invocations < MaxInvoke
    /\ ipc' = [ipc EXCEPT ![t] = "nested_waiting"]
    /\ invocations' = invocations + 1
    /\ UNCHANGED <<refVars, callback, executed, dropped, clientVars, concVars,
                   hostVars, handleVars, renderVars, visitVars, layoutVars, mutex, got,
                   readAfterFree, lastOp>>

\* The nested call, once lock() grants it the Mutex: the whole body, and
\* the return into the closure that is still running.  parking_lot's Mutex
\* is not reentrant: the thread's own guard does not let it through.
nested_invoke(t) ==
    /\ ipc[t] = "nested_waiting"
    /\ lock_acquirable(mutex) \/ ~allocated
    /\ \E c \in CellRead :
        /\ callback' = take(c)
        /\ executed' = executed + (IF c = "Some" THEN 1 ELSE 0)
    /\ mutex' = "none"
    /\ ipc' = [ipc EXCEPT ![t] = "running"]
    /\ readAfterFree' = (readAfterFree \/ ~allocated)
    /\ UNCHANGED <<refVars, dropped, invocations, clientVars, concVars,
                   hostVars, handleVars, renderVars, visitVars, layoutVars, got, lastOp>>

\* end of the if-let: the guard is dropped and the trampoline returns
guard_drop(t) ==
    /\ ipc[t] = "unlocking"
    /\ mutex' = (IF mutex = t THEN "none" ELSE mutex)
    /\ ipc' = [ipc EXCEPT ![t] = "idle"]
    /\ readAfterFree' = (readAfterFree \/ ~allocated)
    /\ UNCHANGED <<refVars, cellVars, clientVars, concVars, hostVars,
                   handleVars, renderVars, visitVars, layoutVars, got, lastOp>>

\* add_ref and release by a thread that is not inside the trampoline.
cell_add_ref(t) == ipc[t] = "idle" /\ thread_add_ref(t)
cell_release_fetch_sub(t) == ipc[t] = "idle" /\ thread_release_fetch_sub(t)
cell_release_branch(t) == thread_release_branch(t)

NextCell ==
    \E t \in Threads :
        \/ trampoline_enter(t) \/ callback_lock(t) \/ take_read(t)
        \/ take_write(t) \/ callback_call(t) \/ callback_return(t)
        \/ nested_enter(t) \/ nested_invoke(t)
        \/ guard_drop(t)
        \/ cell_add_ref(t) \/ cell_release_fetch_sub(t)
        \/ cell_release_branch(t)

SpecCell == InitCell /\ [][NextCell]_vars

\* ------------------------------------------------- NavigationEntryVisitor

\* The visit trampoline, step by step:
\*     (unsafe { &mut *self.callback.get_mut() })(NavigationEntryVisit {..}) as _
\* get_mut() hands out mutable access to the FnMut, the closure is called
\* through it, and its bool is cast to c_int.

\* The wrapper keeps the closure in a SendProtectorMut, where the one-shot
\* wrappers keep theirs in a Mutex.
visitor_payload_locked == "Mutex"
visitor_payload == "SendProtectorMut"

\* SendProtectorMut::get_mut: no lock is taken and no thread is checked.
get_mut(t) == TRUE
\* Whether thread t gets at the closure now.
payload_access(t) ==
    IF visitor_payload = "SendProtectorMut" THEN get_mut(t)
    ELSE \A u \in Threads \ {t} : vpc[u] # "accessing"

\* What the call leaves in the wrapper: the FnMut is borrowed, not moved.
visit_taking(c) == "None"
visit_borrowing(c) == c

\* bool as c_int
as_c_int(b) == IF b THEN 1 ELSE 0

\* The threads that hold mutable access to the closure.
MutableAccesses == {t \in Threads : vpc[t] = "accessing"}

InitVisit ==
    /\ new("urlrequest_client") /\ InitIdle /\ InitExt

visit_enter(t) ==
    /\ vpc[t] = "idle" /\ visits < MaxVisits
    /\ vpc' = [vpc EXCEPT ![t] = "entered"]
    /\ visits' = visits + 1
    /\ vOverlapped' = (vOverlapped \/ \E u \in Threads \ {t} : vpc[u] # "idle")
    /\ UNCHANGED <<vcallback, vexecuted, vLast>>
    /\ UNCHANGED <<refVars, cellVars, clientVars, concVars, hostVars, lastOp,
                   handleVars, renderVars, raceVars, layoutVars>>

visit_get_mut(t) ==
    /\ vpc[t] = "entered"
    /\ payload_access(t)
    /\ vpc' = [vpc EXCEPT ![t] = "accessing"]
    /\ UNCHANGED <<vcallback, visits, vexecuted, vOverlapped, vLast>>
    /\ UNCHANGED <<refVars, cellVars, clientVars, concVars, hostVars, lastOp,
                   handleVars, renderVars, raceVars, layoutVars>>

\* The closure runs and the trampoline returns.  Two threads calling the
\* FnMut through two mutable accesses race on its state: what it hands
\* back is then any c_int value of a bool.
visit_call(t) ==
    /\ vpc[t] = "accessing"
    /\ \E b \in BOOLEAN :
       \E r \in (IF MutableAccesses = {t} THEN {as_c_int(b)} ELSE {0, 1}) :
        vLast' = [seq |-> visits,
                  run |-> vexecuted + (IF vcallback = "Some" THEN 1 ELSE 0),
                  closure |-> IF vcallback = "Some" THEN Bool(b) ELSE "none",
                  ret |-> IF vcallback = "Some" THEN r ELSE -1]
    /\ vexecuted' = vexecuted + (IF vcallback = "Some" THEN 1 ELSE 0)
    /\ vcallback' = visit_borrowing(vcallback)
    /\ vpc' = [vpc EXCEPT ![t] = "idle"]
    /\ UNCHANGED <<visits, vOverlapped>>
    /\ UNCHANGED <<refVars, cellVars, clientVars, concVars, hostVars, lastOp,
                   handleVars, renderVars, raceVars, layoutVars>>

NextVisit ==
    \E t \in Threads : visit_enter(t) \/ visit_get_mut(t) \/ visit_call(t)

SpecVisit == InitVisit /\ [][NextVisit]_vars

\* ------------------------------------------------- layout of RefCounted

\* #[repr(C)] struct RefCounted { cefobj: C, refcount: AtomicUsize, object: R }:
\* the fields are laid out in declaration order, each at the end of the one
\* before it (every field is a whole number of words).
Fields_counter_first == <<"refcount", "cefobj", "object">>
Fields == <<"cefobj", "refcount", "object">>

size_of_field(k, f) ==
    IF f = "cefobj" THEN size_of_C(k)
    ELSE IF f = "refcount" THEN 1
    ELSE size_of_R(k)

RECURSIVE SizeBefore(_, _)
SizeBefore(k, i) ==
    IF i <= 1 THEN 0
    ELSE SizeBefore(k, i - 1) + size_of_field(k, Fields[i - 1])

offset_of(k, f) ==
    SizeBefore(k, CHOOSE i \in DOMAIN Fields : Fields[i] = f)

Addresses == 1 .. MaxAddress

\* get_cef: &mut self.cefobj as *mut C, for the container at address a.
get_cef(k, a) == a + offset_of(k, "cefobj")
\* make_temp: Box::from_raw(ptr as *mut Self): the cast keeps the address.
make_temp_ptr(p) == p

InitLayout ==
    /\ (\E k \in Kinds : new(k)) /\ InitIdle
    /\ InitHandles /\ InitRenderIdle /\ InitRaceIdle /\ InitVisitor
    /\ address \in Addresses /\ viewLast = NoView

\* A refcount call made by the foreign side on the pointer get_cef gave it:
\* the trampoline rebuilds its view with make_temp and reads or updates
\* the counter where the view has its refcount field.
ViewCall(op) ==
    LET p == get_cef(kind, address)
        v == make_temp_ptr(p)
        at == v + offset_of(kind, "refcount")
        hits == at = address + offset_of(kind, "refcount")
    IN
    /\ \E c \in (IF hits THEN {refcount} ELSE Usize) :
        /\ viewLast' = [op |-> op, ptr |-> p, view |-> v, counter_at |-> at,
                        payload_at |-> v + offset_of(kind, "object"),
                        counter |-> c]
        /\ refcount' = (IF op = "add_ref" /\ hits THEN fetch_add(c)
                        ELSE refcount)
    /\ nAdd' = nAdd + (IF op = "add_ref" THEN 1 ELSE 0)
    /\ UNCHANGED <<kind, base, allocated, deallocs, nRel, inProtocol, address>>
    /\ UNCHANGED <<cellVars, clientVars, concVars, hostVars, lastOp,
                   handleVars, renderVars, raceVars, visitVars>>

view_add_ref == nAdd < MaxAdd /\ ViewCall("add_ref")
view_has_one_ref == ViewCall("has_one_ref")
view_has_at_least_one_ref == ViewCall("has_at_least_one_ref")

NextLayout == view_add_ref \/ view_has_one_ref \/ view_has_at_least_one_ref

SpecLayout == InitLayout /\ [][NextLayout]_vars

\* ------------------------------------------------------------------ claims

\* C1: while the callers follow the protocol and still hold a unit (M <= N),
\* the counter equals 1 + N - M at every point of the sequence.
C1_CounterIsOnePlusAddsMinusReleases ==
    (inProtocol /\ nRel <= nAdd) => refcount = 1 + nAdd - nRel

\* C2: the container is deallocated exactly once, by the release that takes
\* the counter from 1 to 0: a release that observes a prior count above 1
\* does not deallocate, the one that observes exactly 1 does.
C2_DeallocatedOnceAtOneToZero ==
    inProtocol =>
        /\ deallocs = (IF units = 0 THEN 1 ELSE 0)
        /\ lastOp.op = "release" => (lastOp.freed <=> lastOp.prior = 1)

BorrowingCalls == ClientTrampolines \cup {"has_one_ref", "has_at_least_one_ref"}

C5_BorrowedViewLeavesCounter ==
    [][lastOp'.op \in BorrowingCalls =>
          UNCHANGED <<refcount, allocated, deallocs>>]_vars

C5_Witness ==
    /\ kind = "urlrequest_client" /\ lastOp.op = "download_data"
    /\ nTramp = 2 /\ allocated /\ deallocs = 0 /\ refcount = 2

\* C6: on a live one-shot cell, k >= 1 sequential trampoline invocations run
\* the closure exactly once, in the first; every later invocation finds the
\* cell empty, runs nothing and returns normally.
C6_OneShotRunsOnce ==
    (kind \in OneShotKinds /\ deallocs = 0) =>
        /\ executed = (IF invocations >= 1 THEN 1 ELSE 0)
        /\ crashed = "none"
        /\ lastOp.op \in OneShotKinds =>
              /\ lastOp.ran <=> invocations = 1
              /\ lastOp.outcome = "returned"

C6_Witness ==
    /\ kind = "download_image" /\ lastOp.op = "download_image"
    /\ invocations = 2 /\ executed = 1 /\ ~lastOp.ran /\ deallocs = 0

\* C7: when the trampoline of a one-shot cell is never invoked, no add_ref,
\* release or deallocation of the container calls the closure.
C7_ReleaseNeverCallsClosure ==
    (kind \in OneShotKinds /\ invocations = 0) => executed = 0

C7_Witness ==
    /\ kind = "pdf_print" /\ invocations = 0 /\ inProtocol /\ units = 0
    /\ deallocs = 1 /\ dropped = 1 /\ executed = 0

\* C8: the closure of a never-invoked one-shot cell is dropped exactly once,
\* at the release of the last unit: not before it, and not never.
C8_ClosureDroppedAtFinalRelease ==
    (kind \in OneShotKinds /\ invocations = 0 /\ inProtocol) =>
        dropped = (IF units = 0 THEN 1 ELSE 0)

\* C10: a panic of the delegate inside a URLRequestClient trampoline is
\* caught there: the trampoline returns (0 from get_auth_credentials) and
\* the panic does not reach the foreign caller.
C10_PanicCaughtInTrampoline ==
    (lastOp.op \in ClientTrampolines /\ lastOp.input = "panics") =>
        /\ lastOp.outcome = "returned"
        /\ crashed = "none"
        /\ lastOp.op = "get_auth_credentials" => lastOp.ret = 0

\* C4: K concurrent add_ref calls followed by K concurrent release calls
\* leave the counter at 1, and the container is allocated at every point.
C4_ConcurrentBalancedKeepsObject ==
    /\ allocated
    /\ ConcDone => refcount = 1

\* C9: a BrowserHost operation whose slot is null returns a default or does
\* nothing; it never panics.
C9_NullSlotNeverPanics ==
    (hostLast.op # "none" /\ ~hostLast.present) => hostLast.outcome # "panic"

\* C11: a URLRequest handle built from a raw pointer holds exactly one unit:
\* From calls add_ref once, Drop calls release once, no other URLRequest
\* operation calls either, and with every handle dropped the foreign
\* object's count is back where it started.
C11_HandleHoldsOneUnit ==
    /\ urlAddRefs - urlReleases = urlLive
    /\ handleLast.type = "URLRequest" =>
          /\ Count(handleLast.calls, "add_ref") =
                 (IF handleLast.op = "from" THEN 1 ELSE 0)
          /\ Count(handleLast.calls, "release") =
                 (IF handleLast.op = "drop" THEN 1 ELSE 0)

C11_Witness ==
    /\ handleLast.type = "URLRequest" /\ handleLast.op = "drop"
    /\ urlLive = 0 /\ urlAddRefs = 2 /\ urlReleases = 2

\* C12: right after RefCounted::new the counter is 1, the four refcount
\* slots of the base are non-null, and the base's size field is the size of
\* the vtable type C: not of the base record, not of the whole container.
C12_NewInitialisesBase ==
    /\ lastOp.op = "new" => refcount = 1
    /\ deallocs = 0 =>
          /\ \A f \in BaseFields \ {"size"} : base[f] # "null"
          /\ base.size = size_of_C(kind)
          /\ base.size # size_of_base
          /\ base.size # size_of_RefCounted(kind)

C12_Witness ==
    /\ lastOp.op = "new" /\ kind = "urlrequest_client" /\ nAdd = 0 /\ nRel = 0
    /\ allocated /\ base.size = 10

\* C13: has_one_ref returns 1 exactly when the counter it reads is 1 and 0
\* otherwise, has_at_least_one_ref returns 1 exactly when it is at least 1
\* and 0 otherwise, and neither changes the counter.
C13_IntrospectionReadsCounter ==
    [][/\ lastOp'.op = "has_one_ref" =>
            /\ lastOp'.ret = (IF lastOp'.prior = 1 THEN 1 ELSE 0)
            /\ allocated => lastOp'.prior = refcount
            /\ refcount' = refcount
       /\ lastOp'.op = "has_at_least_one_ref" =>
            /\ lastOp'.ret = (IF lastOp'.prior >= 1 THEN 1 ELSE 0)
            /\ allocated => lastOp'.prior = refcount
            /\ refcount' = refcount]_vars

C13_Witness ==
    /\ lastOp.op = "has_one_ref" /\ lastOp.prior = 2 /\ lastOp.ret = 0
    /\ allocated /\ refcount = 2 /\ deallocs = 0

\* C14: each RenderProcessHandler trampoline calls the delegate method of
\* its own slot, once, and no other: the on_context_released trampoline
\* calls on_context_released and not on_context_created.
C14_TrampolineCallsOwnMethod ==
    rphLast.slot \in RphSlots => rphLast.called = <<rphLast.slot>>

\* C15: when host, realm or scheme does not convert, the
\* get_auth_credentials trampoline returns 0, without calling the delegate
\* and without panicking.
C15_BadStringReturnsZero ==
    (lastOp.op = "get_auth_credentials" /\ lastOp.input = "bad_string") =>
        /\ lastOp.events = <<>>
        /\ lastOp.outcome = "returned" /\ crashed = "none"
        /\ lastOp.ret = 0

\* C16: in the table wrap() produces, the slot of every capability the
\* delegate leaves at the trait's default is null.
C16_DefaultedSlotIsNull ==
    wrapped \in Wrappers => slots \cap (SlotsOf(wrapped) \ implemented) = {}

\* C17: the get_load_handler trampoline returns null exactly when the
\* delegate's get_load_handler returns None, and a non-null pointer when it
\* returns Some(handler).
C17_LoadHandlerNullIffNone ==
    rphLast.slot = "get_load_handler" =>
        /\ rphLast.ret = "null" <=> rphLast.delegate = "None"
        /\ rphLast.delegate = "Some" => rphLast.ret = "non-null"

C17_Witness ==
    /\ rphLast.slot = "get_load_handler" /\ rphLast.delegate = "Some"
    /\ rphLast.ret = "non-null" /\ load_handler = "Some"
    /\ "get_load_handler" \in implemented

\* C18: when several threads invoke the trampoline of one live one-shot
\* cell concurrently, the closure is executed by exactly one of them,
\* once; every other invocation finds the cell empty.
C18_ConcurrentInvocationsRunOnce ==
    (kind \in OneShotKinds /\ deallocs = 0) =>
        /\ executed <= 1
        /\ Cardinality({t \in Threads : got[t] = "Some"}) <= 1
        /\ \A t \in Threads :
              ipc[t] \in {"calling", "running"} => got[t] = "Some"
        /\ (invocations >= 1 /\ \A t \in Threads : ipc[t] = "idle") =>
              executed = 1

C18_Witness ==
    /\ deallocs = 0 /\ invocations = 2 /\ executed = 1
    /\ ipc["t1"] = "waiting" /\ mutex = "t2"
    /\ ipc["t2"] = "running" /\ got["t2"] = "Some"

\* C19: when a trampoline invocation races with the release of the
\* container's last unit, the closure is never both executed by the
\* invocation and dropped by the destruction, and the invocation never
\* touches the cell of a container that has been deallocated.
C19_InvocationAndLastReleaseExclude ==
    (kind \in OneShotKinds /\ inProtocol) =>
        /\ ~readAfterFree
        /\ ~(executed >= 1 /\ dropped >= 1)

\* C20: in download_image_finished and pdf_print_finished the cell's lock
\* is released before the taken closure starts executing: the closure is
\* never running while the lock is held.
C20_LockReleasedBeforeClosureRuns ==
    \A t \in Threads : (deallocs = 0 /\ ipc[t] = "running") => mutex # t

\* C21: a nested invocation of the same cell's trampoline, made on the same
\* thread by the running closure, finds the cell empty and returns: it is
\* never left waiting for the cell's lock while its own thread holds it.
C21_NestedInvocationNeverBlocks ==
    \A t \in Threads :
        (deallocs = 0 /\ ipc[t] = "nested_waiting") => mutex # t

\* C22: over the life of an AuthCallback handle, whatever cont and cancel
\* calls are made before its drop, the release calls it issues on the
\* foreign object equal the add_ref calls it issued: one.
C22_AuthCallbackReleasesBalance ==
    authLive = 0 => authReleases = authAddRefs

\* C23: with a null slot the guarded queries return their defaults without
\* a foreign call: false for the boolean queries, 30 for
\* get_windowless_frame_rate, None for get_window_handle,
\* get_opener_window_handle and get_extension; with the slot present a
\* boolean query returns true exactly when the foreign call returned a
\* non-zero integer.
C23_GuardedQueryDefaults ==
    /\ (hostLast.op \in BoolQueries /\ ~hostLast.present) =>
          hostLast.result = "false" /\ hostLast.foreign_calls = 0
    /\ (hostLast.op = "get_windowless_frame_rate" /\ ~hostLast.present) =>
          hostLast.result = "30" /\ hostLast.foreign_calls = 0
    /\ (hostLast.op \in OptionQueries /\ ~hostLast.present) =>
          hostLast.result = "None" /\ hostLast.foreign_calls = 0
    /\ (hostLast.op \in BoolQueries /\ hostLast.present) =>
          /\ hostLast.result = "true" <=> hostLast.foreign # 0
          /\ hostLast.result \in {"true", "false"}
          /\ hostLast.foreign_calls = 1
    /\ hostLast.op \in BoolQueries \cup OptionQueries \cup DefaultQueries =>
          hostLast.outcome = "returned"

C23_Witness ==
    /\ hostLast.op = "is_audio_muted" /\ hostLast.present
    /\ hostLast.foreign = 2 /\ hostLast.result = "true" /\ hostCalls = 2

\* C24: run_file_dialog, download_image and print_to_pdf on a null slot
\* never call the closure and build no container and make no foreign call;
\* with the slot present they build exactly one container and pass it to
\* exactly one foreign call.
C24_CallbackOpsBuildOneContainer ==
    hostLast.op \in WrappingOps =>
        /\ hostLast.closure_runs = 0
        /\ hostLast.outcome = "returned"
        /\ hostLast.containers = (IF hostLast.present THEN 1 ELSE 0)
        /\ hostLast.foreign_calls = hostLast.containers
        /\ hostLast.result = (IF hostLast.present THEN "wrapped" ELSE "dropped")

C24_Witness ==
    /\ hostLast.op = "print_to_pdf" /\ ~hostLast.present
    /\ hostLast.containers = 0 /\ hostLast.result = "dropped"

\* C25: the visitor's closure is not consumed by a visit: after k visit
\* invocations that do not overlap it has run exactly k times, the i-th
\* run in the i-th invocation, and each invocation returns 1 when the
\* closure returned true and 0 when it returned false.
C25_VisitorRunsEveryTime ==
    ~vOverlapped =>
        /\ vcallback = "Some"
        /\ vexecuted = visits - Cardinality({t \in Threads : vpc[t] # "idle"})
        /\ vLast.seq >= 1 =>
              /\ vLast.run = vLast.seq
              /\ vLast.ret = (IF vLast.closure = "true" THEN 1 ELSE 0)
              /\ vLast.closure \in {"true", "false"}

C25_Witness ==
    /\ ~vOverlapped /\ visits = 3 /\ vexecuted = 3 /\ vcallback = "Some"
    /\ vLast.seq = 3 /\ vLast.closure = "false" /\ vLast.ret = 0

\* C26: the visitor's payload is guarded by no lock and no thread check: a
\* thread that has entered visit always gets mutable access, so two
\* overlapping visits can hold it at once; when visits never overlap at
\* most one mutable access exists at any time.
C26_VisitorPayloadUnguarded ==
    /\ \A t \in Threads : vpc[t] = "entered" => ENABLED visit_get_mut(t)
    /\ ~vOverlapped => Cardinality(MutableAccesses) <= 1

C26_Witness ==
    MutableAccesses = Threads /\ vOverlapped

\* C27: the pointer get_cef returns has the container's own address, so the
\* view make_temp builds from it is a view of the same container, with the
\* same counter and the same payload: get_cef followed by make_temp is
\* the identity on containers.
C27_GetCefMakeTempIdentity ==
    /\ make_temp_ptr(get_cef(kind, address)) = address
    /\ viewLast.op # "none" =>
          /\ viewLast.ptr = address /\ viewLast.view = address
          /\ viewLast.counter_at = address + size_of_C(kind)
          /\ viewLast.payload_at = address + size_of_C(kind) + 1
          /\ viewLast.op # "add_ref" => viewLast.counter = refcount

C27_Witness ==
    /\ viewLast.op = "has_one_ref" /\ address = 2 /\ viewLast.view = 2
    /\ kind = "download_image" /\ refcount = 2 /\ viewLast.counter = 2

\* C28: in request_complete, upload_progress, download_progress and
\* download_data the request's add_ref is called before the delegate
\* starts and its release after the delegate returns, each exactly once,
\* so the request's count at the trampoline's return is its count at entry.
C28_RequestAddRefReleaseBracket ==
    [][(lastOp'.op \in VoidTrampolines /\ lastOp'.outcome = "returned") =>
          /\ lastOp'.events = <<"add_ref", "delegate", "release">>
          /\ reqAddRefs' = reqAddRefs + 1
          /\ reqReleases' = reqReleases + 1]_vars

C28_Witness ==
    /\ lastOp.op = "upload_progress" /\ lastOp.outcome = "returned"
    /\ lastOp.events = <<"add_ref", "delegate", "release">>
    /\ reqAddRefs = 2 /\ reqReleases = 2 /\ nTramp = 2

\* C29: the load_handler cache starts empty; after each get_load_handler
\* invocation it is empty exactly when the delegate returned None and
\* populated exactly when it returned Some; across consecutive Some
\* results the entry is built once and not rebuilt.
C29_LoadHandlerCacheFollowsDelegate ==
    /\ [](rphCalls = 0 => (load_handler = "None" /\ cacheCreations = 0))
    /\ [][(rphCalls' = rphCalls + 1 /\ rphLast'.slot = "get_load_handler") =>
            /\ load_handler' = "None" <=> rphLast'.delegate = "None"
            /\ load_handler' = "Some" <=> rphLast'.delegate = "Some"
            /\ cacheCreations' = cacheCreations +
                 (IF load_handler = "None" /\ rphLast'.delegate = "Some"
                  THEN 1 ELSE 0)]_vars

C29_Witness ==
    /\ rphLast.slot = "get_load_handler" /\ rphLast.delegate = "Some"
    /\ rphCalls = 2 /\ load_handler = "Some" /\ cacheCreations = 1

\* C30: a release made when the counter of a live container is already 0
\* wraps the counter to 2^w - 1, returns 1 and deallocates nothing, and a
\* following has_at_least_one_ref returns 1.
C30_ReleaseAtZeroWraps ==
    [][/\ (allocated /\ nRel' = nRel + 1 /\ lastOp'.op = "release"
             /\ lastOp'.prior = 0) =>
            /\ refcount' = UsizeMod - 1
            /\ lastOp'.ret = 1 /\ ~lastOp'.freed
            /\ allocated' /\ deallocs' = deallocs
       /\ (allocated /\ lastOp.op = "release" /\ lastOp.prior = 0
             /\ lastOp'.op = "has_at_least_one_ref") =>
            lastOp'.ret = 1]_vars

C30_Witness ==
    /\ lastOp.op = "has_at_least_one_ref" /\ lastOp.ret = 1
    /\ lastOp.prior = UsizeMod - 1 /\ refcount = UsizeMod - 1
    /\ allocated /\ deallocs = 0 /\ nAdd = 0 /\ nRel = 2
====
